---- MODULE Spec2Model ----
(***************************************************************************)
(* Model of the webull client library:                                     *)
(*   - the session fields of LiveWebullClient / PaperWebullClient and the  *)
(*     calls that read or write them (src/src/client.rs,                   *)
(*     src/src/paper_client.rs, src/src/unified_client.rs);                *)
(*   - the streaming connection StreamConn (src/src/stream.rs);            *)
(*   - the paper open-order listing (src/src/paper_client.rs);             *)
(*   - the order builders and the decoding of orders (src/src/models.rs,   *)
(*     src/src/builders.rs).                                               *)
(* Option<T> is modelled by the value None or a value of T.                *)
(***************************************************************************)
EXTENDS Integers, Sequences, FiniteSets, TLC

None == "None"

\* ------------------------------------------------------------------------
\* Bounds of the model
\* ------------------------------------------------------------------------
MaxAccounts == 2   \* records in an account listing
MaxTasks == 1      \* connect() calls, each spawning a background task
MaxConnects == 2   \* connect() calls where the life cycle is examined
MaxSubs == 2       \* entries in the subscription list
MaxOrders == 2     \* orders in the paper order history
MaxPlacements == 2 \* placement requests sent in one behaviour
MaxTime == 2       \* ticks of the wall clock
MaxCallers == 2    \* tasks sharing one client for refresh_login
MaxRefreshes == 2  \* refresh requests sent in one behaviour

\* ------------------------------------------------------------------------
\* Values the server can put in its responses
\* ------------------------------------------------------------------------
AccessTokens == {"a1", "a2"}
RefreshTokens == {"r1"}
TradeTokens == {"t1"}
Uuids == {"u1"}
ExpireTimes == {1}
AccountIdStrings == {"acc1"}
AccountIdNumbers == {7}

\* A request that fails in transport (reqwest error, timeout).
RequestError == [err |-> "RequestError"]
IsRequestError(resp) == "err" \in DOMAIN resp

\* Option<i64>::None for token_expire (timestamps are not negative)
NoTime == -1

\* A JSON value found where an identifier is expected: a string, a number,
\* some other JSON type, or JAbsent when the field is absent.
JStr(s) == [k |-> "str", v |-> s]
JNum(n) == [k |-> "num", v |-> n]
JOther == [k |-> "other"]
JAbsent == [k |-> "absent"]

Digits == <<"0", "1", "2", "3", "4", "5", "6", "7", "8", "9">>

\* serde_json Number::to_string for the small numbers of the model
NumberToString(n) == Digits[n + 1]

IdValues == {JStr(s) : s \in AccountIdStrings} \cup {JNum(n) : n \in AccountIdNumbers}
            \cup {JOther, JAbsent}

SeqsUpTo(S, n) == UNION {[1..k -> S] : k \in 0..n}

\* ------------------------------------------------------------------------
\* State
\* ------------------------------------------------------------------------
VARIABLES
    variant,           \* WebullClient::Live or WebullClient::Paper
    access_token, refresh_token, trade_token, token_expire, uuid, account_id,
    paper_account_id,
    lastCall,          \* the most recent call: operation, result, requests sent
    \* StreamConn
    client,            \* 0: None; i > 0: handle to the event loop of task i
    subscriptions,     \* Vec<String> of topic keys
    is_connected,
    total_volume,      \* ticker id -> last volume (NoVolume: no entry)
    price_callback, order_callback,   \* TRUE when a callback is registered
    \* the transport and the background tasks
    net,               \* per task: state of its event loop's connection
    issued,            \* topic keys with a subscribe frame handed to the
                       \* client's event loop for its current connection
    pc, attempts,      \* connect(): position and polling attempts so far
    handled,           \* the most recent handle_message call
    \* the paper trading server and the order listing
    history,           \* what the server holds: the order-history response
                       \* and whether the account snapshot has openOrders
    open_orders,       \* the list the most recent get_orders returned
    \* the order gateway's caller
    order,             \* the order the caller holds: a PlaceOrderRequest or a
                       \* builder, and the way it is submitted
    submitted,         \* for the placements of a request that came with a
                       \* serialId: the serialId each was posted with
    \* order decoding
    parsed,            \* the most recent decoding of one wire order
    \* time and the callers of refresh_login
    now,               \* the wall clock, in the unit of token_expire
    flight             \* refresh_login: who holds the client, who waits, and
                       \* the refresh requests sent so far

sessionVars == <<access_token, refresh_token, trade_token, token_expire, uuid,
                 account_id, paper_account_id>>

streamVars == <<client, subscriptions, is_connected, net, issued, pc, attempts>>

dispatchVars == <<total_volume, price_callback, order_callback, handled>>

listingVars == <<history, open_orders>>

gatewayVars == <<order, submitted>>

auxVars == <<parsed, now, flight>>

vars == <<variant, access_token, refresh_token, trade_token, token_expire, uuid,
          account_id, paper_account_id, lastCall,
          client, subscriptions, is_connected, total_volume, price_callback,
          order_callback, net, issued, pc, attempts, handled, history, open_orders,
          order, submitted, parsed, now, flight>>

\* The fields of LiveWebullClient as one record, for the operators below.
Base == [access_token |-> access_token, refresh_token |-> refresh_token,
         trade_token |-> trade_token, token_expire |-> token_expire,
         uuid |-> uuid, account_id |-> account_id]

SetBase(s) ==
    /\ access_token' = s.access_token
    /\ refresh_token' = s.refresh_token
    /\ trade_token' = s.trade_token
    /\ token_expire' = s.token_expire
    /\ uuid' = s.uuid
    /\ account_id' = s.account_id

\* A request as it leaves the client: endpoint and the credential headers.
build_req_headers(s, ep, include_trade_token) ==
    [ep |-> ep,
     access_token |-> s.access_token,
     t_token |-> IF include_trade_token THEN s.trade_token ELSE None]

\* login sends self.headers.clone() (no access_token header) unless an MFA
\* code is given; the model's login carries no MFA code.
PlainRequest(ep) == [ep |-> ep, access_token |-> None, t_token |-> None]

Out(s, result, sent) == [s |-> s, result |-> result, sent |-> sent]

\* ------------------------------------------------------------------------
\* Account resolution
\* ------------------------------------------------------------------------
AccountLists == SeqsUpTo(IdValues, MaxAccounts)

\* Response of the sub-account listing: transport failure, or a body whose
\* "data" is an array of records, or a body with no "data" array.
NoArray == [has_array |-> FALSE, items |-> <<>>]
Array(d) == [has_array |-> TRUE, items |-> d]

LiveAccountResponses == {RequestError} \cup {[data |-> Array(d)] : d \in AccountLists}
                        \cup {[data |-> NoArray]}

\* Response of the paper account listing: a bare array, or an object with
\* or without a "data" array.
PaperAccountResponses ==
    {RequestError}
    \cup {[is_array |-> TRUE, items |-> d, data |-> NoArray] : d \in AccountLists}
    \cup {[is_array |-> FALSE, items |-> <<>>, data |-> Array(d)] : d \in AccountLists}
    \cup {[is_array |-> FALSE, items |-> <<>>, data |-> NoArray]}

\* One response for each distinct value of Key over the responses S: the calls
\* below depend on a listing response only through Key.
OnePerKey(S, Key(_)) == {CHOOSE r \in S : Key(r) = o : o \in {Key(r) : r \in S}}

\* array.first(), then the identifier field as a string or a number
FirstId(arr) ==
    LET list == arr.items IN
    IF arr.has_array /\ Len(list) > 0 /\ list[1].k # "absent"
    THEN IF list[1].k = "str" THEN [ok |-> TRUE, id |-> list[1].v]
         ELSE IF list[1].k = "num" THEN [ok |-> TRUE, id |-> NumberToString(list[1].v)]
         ELSE [ok |-> FALSE, id |-> None]
    ELSE [ok |-> FALSE, id |-> None]

get_account_id(s, resp) ==
    LET req == {build_req_headers(s, "account_id", FALSE)} IN
    IF IsRequestError(resp) THEN Out(s, "RequestError", req)
    ELSE LET r == FirstId(resp.data) IN
         IF r.ok THEN Out([s EXCEPT !.account_id = r.id], "Ok", req)
         ELSE Out(s, "AccountNotFound", req)

\* Returns the new paper_account_id and the result.
get_paper_account_id(s, pid, resp) ==
    LET req == {build_req_headers(s, "paper_account_id", FALSE)} IN
    IF IsRequestError(resp) THEN [pid |-> pid, result |-> "RequestError", sent |-> req]
    ELSE LET accounts == IF resp.is_array THEN Array(resp.items) ELSE resp.data
             r == FirstId(accounts) IN
         IF r.ok THEN [pid |-> r.id, result |-> "Ok", sent |-> req]
         ELSE [pid |-> pid, result |-> "AccountNotFound", sent |-> req]

LiveAccountKey(resp) ==
    IF IsRequestError(resp) THEN [net |-> FALSE, ok |-> FALSE, id |-> None]
    ELSE [net |-> TRUE, ok |-> FirstId(resp.data).ok, id |-> FirstId(resp.data).id]

PaperAccountKey(resp) ==
    LET o == get_paper_account_id([access_token |-> None], None, resp) IN
    [result |-> o.result, id |-> o.pid]

LiveAccountCases == OnePerKey(LiveAccountResponses, LiveAccountKey)
PaperAccountCases == OnePerKey(PaperAccountResponses, PaperAccountKey)

\* ------------------------------------------------------------------------
\* Session manager
\* ------------------------------------------------------------------------
\* tokenExpireTime on the wire: an integer, an RFC 3339 string, another
\* string, or absent.
ExpireValues == {[k |-> "int", v |-> t] : t \in ExpireTimes}
                \cup {[k |-> "rfc3339", v |-> t] : t \in ExpireTimes}
                \cup {[k |-> "badstr"], JAbsent}

LoginBodies ==
    {b \in [accessToken : AccessTokens \cup {None},
            refreshToken : RefreshTokens \cup {None},
            tokenExpireTime : ExpireValues,
            uuid : Uuids \cup {None}] :
        b.uuid = None => (b.accessToken # None /\ b.refreshToken # None)}

LoginResponses == {RequestError} \cup LoginBodies

\* v.as_i64().or_else(|| v.as_str().and_then(parse_from_rfc3339))
ParseTokenExpire(e) ==
    IF e.k \in {"int", "rfc3339"} THEN e.v ELSE NoTime

\* serde_json::from_value::<LoginResponse>: the four fields are Strings.
LoginResponseDecodes(b) ==
    /\ b.accessToken # None
    /\ b.refreshToken # None
    /\ b.uuid # None
    /\ b.tokenExpireTime.k \in {"rfc3339", "badstr"}

\* What login looks at in the credentials: an empty username, an empty
\* password, a username get_account_type rejects, or none of these.
Credentials == {"empty_username", "empty_password", "bad_email", "ok"}

\* login with no check of the credentials
login_unchecked(s, creds, resp, acctResp) ==
    IF IsRequestError(resp) THEN Out(s, "RequestError", {PlainRequest("login")})
    ELSE IF resp.accessToken # None
    THEN LET s1 == [s EXCEPT !.access_token = resp.accessToken,
                             !.refresh_token = resp.refreshToken,
                             !.token_expire = ParseTokenExpire(resp.tokenExpireTime),
                             !.uuid = resp.uuid]
             a == get_account_id(s1, acctResp)
             sent == {PlainRequest("login")} \cup a.sent
         IN IF a.result # "Ok" THEN Out(a.s, a.result, sent)
            ELSE IF LoginResponseDecodes(resp) THEN Out(a.s, "Ok", sent)
            ELSE Out(a.s, "JsonError", sent)
    ELSE Out(s, "AuthenticationError", {PlainRequest("login")})

login(s, creds, resp, acctResp) ==
    IF creds \in {"empty_username", "empty_password"} THEN Out(s, "InvalidParameter", {})
    ELSE IF creds = "bad_email" THEN Out(s, "InvalidParameter", {})
    ELSE IF IsRequestError(resp) THEN Out(s, "RequestError", {PlainRequest("login")})
    ELSE IF resp.accessToken # None
    THEN LET s1 == [s EXCEPT !.access_token = resp.accessToken,
                             !.refresh_token = resp.refreshToken,
                             !.token_expire = ParseTokenExpire(resp.tokenExpireTime),
                             !.uuid = resp.uuid]
             a == get_account_id(s1, acctResp)
             sent == {PlainRequest("login")} \cup a.sent
         IN IF a.result # "Ok" THEN Out(a.s, a.result, sent)
            ELSE IF LoginResponseDecodes(resp) THEN Out(a.s, "Ok", sent)
            ELSE Out(a.s, "JsonError", sent)
    ELSE Out(s, "AuthenticationError", {PlainRequest("login")})

\* refresh_login that posts to the refresh endpoint whatever it holds
refresh_login_unguarded(s, resp) ==
    IF IsRequestError(resp) THEN Out(s, "RequestError", {PlainRequest("refresh_login")})
    ELSE IF resp.accessToken # None
    THEN LET s1 == [s EXCEPT !.access_token = resp.accessToken,
                             !.refresh_token = resp.refreshToken,
                             !.token_expire = ParseTokenExpire(resp.tokenExpireTime)]
         IN Out(s1, IF LoginResponseDecodes(resp) THEN "Ok" ELSE "JsonError",
                {PlainRequest("refresh_login")})
    ELSE Out(s, "SessionExpired", {PlainRequest("refresh_login")})

\* refresh_login that also forgets the trade token
refresh_login_clears_trade_token(s, resp) ==
    IF s.refresh_token = None THEN Out(s, "SessionExpired", {})
    ELSE IF IsRequestError(resp) THEN Out(s, "RequestError", {PlainRequest("refresh_login")})
    ELSE IF resp.accessToken # None
    THEN LET s1 == [s EXCEPT !.access_token = resp.accessToken,
                             !.refresh_token = resp.refreshToken,
                             !.token_expire = ParseTokenExpire(resp.tokenExpireTime),
                             !.trade_token = None]
         IN Out(s1, IF LoginResponseDecodes(resp) THEN "Ok" ELSE "JsonError",
                {PlainRequest("refresh_login")})
    ELSE Out(s, "SessionExpired", {PlainRequest("refresh_login")})

refresh_login(s, resp) ==
    IF s.refresh_token = None THEN Out(s, "SessionExpired", {})
    ELSE IF IsRequestError(resp) THEN Out(s, "RequestError", {PlainRequest("refresh_login")})
    ELSE IF resp.accessToken # None
    THEN LET s1 == [s EXCEPT !.access_token = resp.accessToken,
                             !.refresh_token = resp.refreshToken,
                             !.token_expire = ParseTokenExpire(resp.tokenExpireTime)]
         IN Out(s1, IF LoginResponseDecodes(resp) THEN "Ok" ELSE "JsonError",
                {PlainRequest("refresh_login")})
    ELSE Out(s, "SessionExpired", {PlainRequest("refresh_login")})

\* Response of the logout endpoint: transport failure, or an HTTP status.
LogoutResponses == {RequestError, [status |-> "success"], [status |-> "failure"]}

logout(s, resp) ==
    LET req == {build_req_headers(s, "logout", FALSE)} IN
    IF IsRequestError(resp) THEN Out(s, "RequestError", req)
    ELSE IF resp.status = "success"
    THEN Out([access_token |-> None, refresh_token |-> None, trade_token |-> None,
              token_expire |-> NoTime, uuid |-> None, account_id |-> None],
             "OkTrue", req)
    ELSE Out(s, "OkFalse", req)

\* Response of the trade-token endpoint: data.tradeToken as a string or not.
TradeTokenResponses == {RequestError} \cup {[tradeToken |-> t] : t \in TradeTokens \cup {None}}

\* get_trade_token with an error path that drops the resolved account
get_trade_token_resets(s, resp) ==
    LET req == {build_req_headers(s, "trade_token", FALSE)} IN
    IF IsRequestError(resp) THEN Out(s, "RequestError", req)
    ELSE IF resp.tradeToken # None
    THEN Out([s EXCEPT !.trade_token = resp.tradeToken], "Ok", req)
    ELSE Out([s EXCEPT !.account_id = None], "AuthenticationError", req)

get_trade_token(s, resp) ==
    LET req == {build_req_headers(s, "trade_token", FALSE)} IN
    IF IsRequestError(resp) THEN Out(s, "RequestError", req)
    ELSE IF resp.tradeToken # None
    THEN Out([s EXCEPT !.trade_token = resp.tradeToken], "Ok", req)
    ELSE Out(s, "AuthenticationError", req)

\* ------------------------------------------------------------------------
\* Order gateway
\* ------------------------------------------------------------------------
OrderIdStrings == {"o1"}
OrderIdNumbers == {5}

OrderIdValues == {JStr(x) : x \in OrderIdStrings} \cup {JNum(n) : n \in OrderIdNumbers}
                 \cup {JOther, JAbsent}

\* Response to an order placement: "orderId" at the top level and/or under
\* "data".
PlaceResponses == {RequestError} \cup [top : OrderIdValues, nested : OrderIdValues]

\* Response to a cancellation: transport failure, or an HTTP status.
CancelResponses == {RequestError, [status |-> "success"], [status |-> "failure"]}

OrderIdResult(v) ==
    IF v.k = "str" THEN [result |-> "Ok", ret |-> v.v]
    ELSE IF v.k = "num" THEN [result |-> "Ok", ret |-> NumberToString(v.v)]
    ELSE [result |-> "ApiError", ret |-> None]

\* A finished call: operation, result, requests sent, returned value, the
\* HTTP status the server answered with when the result is read off it, and,
\* where a property reads it, the argument or the response the call was given
\* (a JSON value, JAbsent otherwise).
Call(op, result, sent, ret) ==
    [op |-> op, result |-> result, sent |-> sent, ret |-> ret, http |-> None,
     arg |-> JAbsent]

\* ------------------------------------------------------------------------
\* Orders as the caller submits them
\* ------------------------------------------------------------------------
OrderTypes == {"Market", "Limit", "Stop", "StopLimit"}
SerialIds == {"s1"}

\* How an order reaches place_order: a PlaceOrderRequest the caller filled in
\* itself (its members are public), PlaceOrderRequestBuilder::build, or
\* PlaceOrderBuilderWithClient awaited.
Vias == {"request", "builder", "builder_with_client"}

\* limit_price / stop_price: TRUE when the Option is Some.  serial_id: JAbsent
\* or a string.  ticker_id, action and quantity are set.  order_type None:
\* PlaceOrderBuilderWithClient with no explicit type.
Orders ==
    {o \in [via : Vias, order_type : OrderTypes \cup {None}, limit_price : BOOLEAN,
            stop_price : BOOLEAN, serial_id : {JAbsent} \cup {JStr(k) : k \in SerialIds}] :
        o.order_type = None => o.via = "builder_with_client"}

\* PlaceOrderRequest::market() ... build() with no serial id
DefaultOrder == [via |-> "builder", order_type |-> "Market", limit_price |-> FALSE,
                 stop_price |-> FALSE, serial_id |-> JAbsent]

\* The type-specific check of PlaceOrderRequestBuilder::build and of
\* PlaceOrderBuilderWithClient::into_future
PricesPresent(order_type, limit_price, stop_price) ==
    IF order_type = "Limit" THEN limit_price
    ELSE IF order_type = "Stop" THEN stop_price
    ELSE IF order_type = "StopLimit" THEN limit_price /\ stop_price
    ELSE TRUE

\* A detection that looks at the limit price first
DetectOrderType_limit_first(limit_price, stop_price) ==
    IF limit_price THEN "Limit"
    ELSE IF stop_price THEN "Stop"
    ELSE "Market"

\* PlaceOrderBuilderWithClient::into_future: the type when none was set
DetectOrderType(limit_price, stop_price) ==
    IF limit_price /\ stop_price THEN "StopLimit"
    ELSE IF limit_price THEN "Limit"
    ELSE IF stop_price THEN "Stop"
    ELSE "Market"

\* The PlaceOrderRequest handed to place_order, or the builder's error.
BuildOrder(o) ==
    LET order_type == IF o.order_type = None
                      THEN DetectOrderType(o.limit_price, o.stop_price)
                      ELSE o.order_type
        req == [order_type |-> order_type, limit_price |-> o.limit_price,
                stop_price |-> o.stop_price, serial_id |-> o.serial_id]
    IN IF o.via = "request" THEN [result |-> "Ok", req |-> req]
       ELSE IF PricesPresent(order_type, o.limit_price, o.stop_price)
       THEN [result |-> "Ok", req |-> req]
       ELSE [result |-> IF o.via = "builder" THEN "BuildError" ELSE "InvalidRequest",
             req |-> req]

\* uuid::Uuid::new_v4(): a value no earlier call produced
FreshUuid(n) == [k |-> "uuid", v |-> n]

\* order_data with a serialId generated on every call
OrderData_regenerates(req, new_uuid) ==
    [serialId |-> new_uuid,
     order_type |-> req.order_type,
     limit_price |-> req.limit_price,
     stop_price |-> req.stop_price]

\* order_data as it is posted: the serialId, and the price members it has
OrderData(req, new_uuid) ==
    [serialId |-> IF req.serial_id.k = "absent" THEN new_uuid ELSE req.serial_id,
     order_type |-> req.order_type,
     limit_price |-> req.limit_price,
     stop_price |-> req.stop_price]

HttpStatus(resp) == IF IsRequestError(resp) THEN None ELSE resp.status

\* LiveWebullClient::place_order
live_place_order(s, order_req, new_uuid, resp) ==
    IF s.account_id = None THEN Call("place_order", "AccountNotFound", {}, None)
    ELSE IF s.trade_token = None THEN Call("place_order", "TradeTokenNotAvailable", {}, None)
    ELSE LET req == {build_req_headers(s, "place_order", TRUE) @@ OrderData(order_req, new_uuid)} IN
         IF IsRequestError(resp) THEN Call("place_order", "RequestError", req, None)
         ELSE LET r == OrderIdResult(IF resp.nested.k # "absent" THEN resp.nested ELSE resp.top)
              IN Call("place_order", r.result, req, r.ret)

\* LiveWebullClient::cancel_order
live_cancel_order(s, resp) ==
    IF s.account_id = None THEN Call("cancel_order", "AccountNotFound", {}, None)
    ELSE IF s.trade_token = None THEN Call("cancel_order", "TradeTokenNotAvailable", {}, None)
    ELSE LET req == {build_req_headers(s, "cancel_order", TRUE)} IN
         IF IsRequestError(resp) THEN Call("cancel_order", "RequestError", req, None)
         ELSE Call("cancel_order", IF resp.status = "success" THEN "OkTrue" ELSE "OkFalse", req, None)

\* PaperWebullClient::place_order
paper_place_order(s, pid, order_req, new_uuid, resp) ==
    IF pid = None THEN Call("place_order", "AccountNotFound", {}, None)
    ELSE LET req == {build_req_headers(s, "paper_place_order", TRUE)
                     @@ OrderData(order_req, new_uuid)} IN
         IF IsRequestError(resp) THEN Call("place_order", "RequestError", req, None)
         ELSE LET r == OrderIdResult(IF resp.top.k # "absent" THEN resp.top ELSE resp.nested)
              IN Call("place_order", r.result, req, r.ret)

\* PaperWebullClient::cancel_order
paper_cancel_order(s, pid, resp) ==
    IF pid = None THEN Call("cancel_order", "AccountNotFound", {}, None)
    ELSE LET req == {build_req_headers(s, "paper_cancel_order", FALSE)} IN
         IF IsRequestError(resp) THEN Call("cancel_order", "RequestError", req, None)
         ELSE Call("cancel_order", IF resp.status = "success" THEN "OkTrue" ELSE "OkFalse", req, None)

\* What the two place_order read off a placement response
PlaceKey(resp) ==
    IF IsRequestError(resp) THEN <<"RequestError">>
    ELSE <<OrderIdResult(IF resp.nested.k # "absent" THEN resp.nested ELSE resp.top),
           OrderIdResult(IF resp.top.k # "absent" THEN resp.top ELSE resp.nested)>>

PlaceCases == OnePerKey(PlaceResponses, PlaceKey)

\* ------------------------------------------------------------------------
\* Calls on WebullClient (unified_client.rs dispatches on the variant)
\* ------------------------------------------------------------------------

LoginWith(creds, resp, acctResp) ==
    LET o == login(Base, creds, resp, acctResp) IN
    IF variant = "Live" \/ o.result # "Ok"
    THEN /\ SetBase(o.s)
         /\ lastCall' = [Call("login", o.result, o.sent, None) EXCEPT !.arg = JStr(creds)]
         /\ UNCHANGED <<variant, paper_account_id, streamVars, dispatchVars, listingVars, gatewayVars, auxVars>>
    ELSE \E paperResp \in PaperAccountCases :
         LET p == get_paper_account_id(o.s, paper_account_id, paperResp) IN
         /\ SetBase(o.s)
         /\ paper_account_id' = p.pid
         /\ lastCall' = [Call("login", p.result, o.sent \cup p.sent, None)
                             EXCEPT !.arg = JStr(creds)]
         /\ UNCHANGED <<variant, streamVars, dispatchVars, listingVars, gatewayVars, auxVars>>

\* WebullClient::login; the responses are only drawn when requests are sent.
Login ==
    \/ \E creds \in Credentials \ {"ok"} : LoginWith(creds, RequestError, RequestError)
    \/ \E resp \in LoginResponses, acctResp \in LiveAccountCases :
          LoginWith("ok", resp, acctResp)

RefreshLogin ==
    \E resp \in LoginResponses :
        LET o == refresh_login(Base, resp) IN
        /\ SetBase(o.s)
        /\ lastCall' = Call("refresh_login", o.result, o.sent, None)
        /\ UNCHANGED <<variant, paper_account_id, streamVars, dispatchVars, listingVars, gatewayVars, auxVars>>

GetTradeToken ==
    \E resp \in TradeTokenResponses :
        LET o == get_trade_token(Base, resp) IN
        /\ SetBase(o.s)
        /\ lastCall' = Call("get_trade_token", o.result, o.sent,
                            IF o.result = "Ok" THEN resp.tradeToken ELSE None)
        /\ UNCHANGED <<variant, paper_account_id, streamVars, dispatchVars, listingVars, gatewayVars, auxVars>>

Logout ==
    \E resp \in LogoutResponses :
        LET o == logout(Base, resp) IN
        /\ SetBase(o.s)
        /\ lastCall' = [Call("logout", o.result, o.sent, None)
                            EXCEPT !.http = HttpStatus(resp)]
        /\ UNCHANGED <<variant, paper_account_id, streamVars, dispatchVars, listingVars, gatewayVars, auxVars>>

\* WebullClient::get_account_id: the live client asks the server, the paper
\* client answers from paper_account_id.
GetAccountId ==
    IF variant = "Live"
    THEN \E resp \in LiveAccountCases :
            LET o == get_account_id(Base, resp) IN
            /\ SetBase(o.s)
            /\ lastCall' = Call("get_account_id", o.result, o.sent,
                                IF o.result = "Ok" THEN o.s.account_id ELSE None)
            /\ UNCHANGED <<variant, paper_account_id, streamVars, dispatchVars, listingVars, gatewayVars, auxVars>>
    ELSE /\ lastCall' = IF paper_account_id # None
                        THEN Call("get_account_id", "Ok", {}, paper_account_id)
                        ELSE Call("get_account_id", "AccountNotFound", {}, None)
         /\ UNCHANGED <<variant, sessionVars, streamVars, dispatchVars, listingVars, gatewayVars, auxVars>>

\* The caller submits the order it holds: through the builder it chose,
\* then WebullClient::place_order.
PlaceOrder ==
    /\ Len(submitted) < MaxPlacements
    /\ \E resp \in PlaceCases :
        LET b == BuildOrder(order)
            new_uuid == FreshUuid(Len(submitted) + 1)
            c == IF b.result # "Ok" THEN Call("place_order", b.result, {}, None)
                 ELSE IF variant = "Live" THEN live_place_order(Base, b.req, new_uuid, resp)
                 ELSE paper_place_order(Base, paper_account_id, b.req, new_uuid, resp)
        IN /\ lastCall' = c
           /\ submitted' = IF c.sent = {} \/ order.serial_id.k = "absent" THEN submitted
                           ELSE Append(submitted, OrderData(b.req, new_uuid).serialId)
    /\ UNCHANGED <<variant, sessionVars, streamVars, dispatchVars, listingVars, order,
                   auxVars>>

CancelOrder ==
    \E resp \in CancelResponses :
        /\ lastCall' = [IF variant = "Live" THEN live_cancel_order(Base, resp)
                        ELSE paper_cancel_order(Base, paper_account_id, resp)
                            EXCEPT !.http = HttpStatus(resp)]
        /\ UNCHANGED <<variant, sessionVars, streamVars, dispatchVars, listingVars, gatewayVars, auxVars>>

\* ------------------------------------------------------------------------
\* Paper order listing (paper_client.rs)
\* ------------------------------------------------------------------------
NoStatus == "<absent>"

\* An order of the history as the server sends it: orderId as a JSON value,
\* status / action / orderType as strings (NoStatus: no string there), and
\* whether "ticker" is present and decodes as a Ticker.
WireOrder(orderId, status, ticker, action, orderType) ==
    [orderId |-> orderId, status |-> status, ticker |-> ticker, action |-> action,
     orderType |-> orderType]

\* The status match of parse_paper_order
PaperOrderStatus(status) ==
    IF status = "Working" THEN "Working"
    ELSE IF status = "Filled" THEN "Filled"
    ELSE IF status \in {"Canceled", "Cancelled"} THEN "Cancelled"
    ELSE IF status \in {"PartiallyFilled", "Partial Filled"} THEN "PartialFilled"
    ELSE IF status = "Pending" THEN "Pending"
    ELSE IF status = "Failed" THEN "Failed"
    ELSE "Working"

PaperOrderType(orderType) ==
    IF orderType = "MKT" THEN "Market"
    ELSE IF orderType = "LMT" THEN "Limit"
    ELSE IF orderType = "STP" THEN "Stop"
    ELSE IF orderType = "STP LMT" THEN "StopLimit"
    ELSE "ParseError"

ParseError == [ok |-> FALSE, order |-> [order_id |-> None, action |-> None,
                                        order_type |-> None, status |-> None]]

parse_paper_order(order_val) ==
    IF order_val.orderId.k # "num" THEN ParseError
    ELSE IF order_val.ticker # "ok" THEN ParseError
    ELSE IF order_val.action \notin {"BUY", "SELL"} THEN ParseError
    ELSE IF PaperOrderType(order_val.orderType) = "ParseError" THEN ParseError
    ELSE [ok |-> TRUE,
          order |-> [order_id |-> NumberToString(order_val.orderId.v),
                     action |-> IF order_val.action = "BUY" THEN "Buy" ELSE "Sell",
                     order_type |-> PaperOrderType(order_val.orderType),
                     status |-> PaperOrderStatus(order_val.status)]]

\* The variant names of OrderStatus, which are its serde names
OrderStatusNames == {"Working", "Pending", "Submitted", "PartialFilled", "Filled",
                     "Cancelled", "Failed", "Rejected"}

\* The serde names of OrderType
OrderTypeName(orderType) ==
    IF orderType = "MKT" THEN "Market"
    ELSE IF orderType = "LMT" THEN "Limit"
    ELSE IF orderType = "STP" THEN "Stop"
    ELSE IF orderType = "STP_LMT" THEN "StopLimit"
    ELSE "ParseError"

\* serde_json::from_value::<Order>, as LiveWebullClient::get_orders decodes
\* the orders of the account snapshot: order_id is a String, ticker is
\* optional, action / orderType / status are the enums' serde names.  The
\* other members of the order are taken to be well-formed.
deserialize_order(order_val) ==
    IF order_val.orderId.k # "str" THEN ParseError
    ELSE IF order_val.action \notin {"BUY", "SELL"} THEN ParseError
    ELSE IF OrderTypeName(order_val.orderType) = "ParseError" THEN ParseError
    ELSE IF order_val.status \notin OrderStatusNames THEN ParseError
    ELSE [ok |-> TRUE,
          order |-> [order_id |-> order_val.orderId.v,
                     action |-> IF order_val.action = "BUY" THEN "Buy" ELSE "Sell",
                     order_type |-> OrderTypeName(order_val.orderType),
                     status |-> order_val.status]]

\* Status strings the server can send, NoStatus when it sends none
AllWireStatuses == {"Working", "Filled", "Canceled", "Cancelled", "PartiallyFilled",
                    "Partial Filled", "PartialFilled", "Pending", "Failed",
                    "Submitted", "Rejected", "Bogus", NoStatus}

\* One order as either decoder can be given it
ParseInputs ==
    {WireOrder(id, st, ticker, action, orderType) :
        id \in {JNum(5), JStr("o1")}, st \in AllWireStatuses, ticker \in {"ok", "missing"},
        action \in {"BUY", "HOLD"},
        orderType \in {"MKT", "STP LMT", "STP_LMT"}}

Decode(by, order_val) ==
    IF by = "parse_paper_order" THEN parse_paper_order(order_val)
    ELSE deserialize_order(order_val)

Decoded(by, order_val) ==
    [by |-> by, input |-> order_val, ok |-> Decode(by, order_val).ok,
     order |-> Decode(by, order_val).order]

\* The paper client decodes one order of the history.
ParsePaperOrder ==
    /\ \E order_val \in ParseInputs : parsed' = Decoded("parse_paper_order", order_val)
    /\ UNCHANGED <<variant, sessionVars, lastCall, streamVars, dispatchVars, listingVars,
                   gatewayVars, now, flight>>

\* The live client decodes one order of the account snapshot.
DeserializeOrder ==
    /\ \E order_val \in ParseInputs : parsed' = Decoded("deserialize", order_val)
    /\ UNCHANGED <<variant, sessionVars, lastCall, streamVars, dispatchVars, listingVars,
                   gatewayVars, now, flight>>

\* The loop of get_orders over the history array
RECURSIVE WorkingOrders(_)
WorkingOrders(orders_array) ==
    IF orders_array = <<>> THEN <<>>
    ELSE LET order_val == Head(orders_array)
             rest == WorkingOrders(Tail(orders_array))
         IN IF order_val.status = "Working" /\ parse_paper_order(order_val).ok
            THEN <<parse_paper_order(order_val).order>> \o rest
            ELSE rest

\* PaperWebullClient::get_orders: the result and the orders returned.
\* resp: the response to get_history_orders("All", page_size).
paper_get_orders(s, pid, resp) ==
    IF pid = None THEN [call |-> Call("get_orders", "AccountNotFound", {}, None),
                        orders |-> <<>>]
    ELSE LET req == {build_req_headers(s, "paper_orders", TRUE)} IN
         IF IsRequestError(resp)
         THEN [call |-> Call("get_orders", "RequestError", req, None), orders |-> <<>>]
         ELSE IF resp.is_array
         THEN [call |-> Call("get_orders", "Ok", req, None),
               orders |-> WorkingOrders(resp.orders)]
         ELSE [call |-> Call("get_orders", "Ok", req, None), orders |-> <<>>]

OrderNumbers == {5, 6}
WireStatuses == {"Working", "Filled", "Cancelled", "Bogus", NoStatus}

\* Orders the server can hold: well-formed orders in each status, and Working
\* orders with one member that parse_paper_order does not take.
WireOrders ==
    {WireOrder(JNum(n), st, "ok", "BUY", "LMT") : n \in OrderNumbers, st \in WireStatuses}
    \cup {WireOrder(JStr("o1"), "Working", "ok", "BUY", "LMT"),
          WireOrder(JNum(5), "Working", "missing", "SELL", "MKT"),
          WireOrder(JNum(5), "Working", "ok", "HOLD", "MKT"),
          WireOrder(JNum(5), "Working", "ok", "SELL", "STP LMT"),
          WireOrder(JNum(5), "Working", "ok", "SELL", "STP_LMT")}

\* The history response: a bare array of orders, or the orders under a
\* wrapper object.
Histories ==
    [is_array : BOOLEAN, orders : SeqsUpTo(WireOrders, MaxOrders),
     snapshot_open_orders : BOOLEAN]

NoListing ==
    /\ history = [is_array |-> TRUE, orders |-> <<>>, snapshot_open_orders |-> FALSE]
    /\ open_orders = <<>>

\* WebullClient::get_orders on the paper variant
GetOrders ==
    /\ variant = "Paper"
    /\ \E resp \in {RequestError, [is_array |-> history.is_array, orders |-> history.orders]} :
          LET o == paper_get_orders(Base, paper_account_id, resp) IN
          /\ lastCall' = o.call
          /\ open_orders' = o.orders
    /\ UNCHANGED <<variant, sessionVars, streamVars, dispatchVars, history,
                   gatewayVars, auxVars>>

\* The caller holds a market order and has placed nothing.
NoOrder ==
    /\ order = DefaultOrder
    /\ submitted = <<>>

NotParsed == [by |-> "none", ok |-> FALSE]
NoFlight == [holder |-> 0, waiting |-> {}, requests |-> 0]

NoAux ==
    /\ parsed = NotParsed
    /\ now = 0
    /\ flight = NoFlight

\* LiveWebullClient::new / PaperWebullClient::new
NewClient ==
    /\ access_token = None
    /\ refresh_token = None
    /\ trade_token = None
    /\ token_expire = NoTime
    /\ uuid = None
    /\ account_id = None
    /\ paper_account_id = None
    /\ lastCall = Call("new", "Ok", {}, None)

\* ------------------------------------------------------------------------
\* Streaming connection (stream.rs)
\* ------------------------------------------------------------------------
Tasks == 1..MaxTasks

TICKER_QUOTE == 102
TICKER_TRADE == 103
MaxAttempts == 10

TickerIds == {"913"}
TopicTypes == {TICKER_QUOTE, TICKER_TRADE}
StreamAccounts == {"acc1"}
NoType == 0
NoVolume == -1

\* A topic string, by what handle_message can see of it: whether it parses as
\* JSON, its "tickerId", "type" and "secAccountId" members, and which of the
\* words platpush / wspush occur in it besides.
Topic(json, tickerId, type, acct, words) ==
    [json |-> json, tickerId |-> tickerId, type |-> type, secAccountId |-> acct,
     words |-> words]

\* format!("{{\"tickerId\":\"{}\",\"type\":{}}}", ticker_id, topic_type)
TickerKey(ticker_id, topic_type) == Topic(TRUE, JStr(ticker_id), topic_type, None, {})

\* format!("{{\"secAccountId\":\"{}\"}}", account_id)
OrdersKey(acct) == Topic(TRUE, JAbsent, NoType, acct, {})

\* A payload, by what handle_message can see of it: whether it parses as
\* JSON, and its "volume" member.
Payload(json, volume) == [json |-> json, volume |-> volume]

\* Placeholder where a record has a topic field and there is no topic
NoTopic == Topic(FALSE, JAbsent, NoType, None, {})

\* StreamConn::new
NewStream ==
    /\ client = 0
    /\ subscriptions = <<>>
    /\ is_connected = FALSE
    /\ total_volume = [t \in TickerIds |-> NoVolume]
    /\ net = [i \in Tasks |-> "unspawned"]
    /\ issued = {}
    /\ pc = "idle"
    /\ attempts = 0
    /\ handled = [topic |-> NoTopic, payload |-> Payload(FALSE, JAbsent),
                  callback |-> "new", after_malformed |-> FALSE]

\* What no call on StreamConn and no event of its tasks touches
RestUnchanged == UNCHANGED <<variant, sessionVars, dispatchVars, listingVars, gatewayVars, auxVars>>

Frame(kind, topic) == [ep |-> kind, topic |-> topic]

Range(f) == {f[i] : i \in DOMAIN f}

\* A removal that takes out the first occurrence of the topic only
Retain_first_only(list, topic) ==
    IF \E i \in 1..Len(list) : list[i] = topic
    THEN LET i == CHOOSE k \in 1..Len(list) :
                    list[k] = topic /\ \A j \in 1..(k - 1) : list[j] # topic
         IN SubSeq(list, 1, i - 1) \o SubSeq(list, i + 1, Len(list))
    ELSE list

\* Vec::retain(|t| t != &topic)
RECURSIVE Retain(_, _)
Retain(list, topic) ==
    IF list = <<>> THEN <<>>
    ELSE IF Head(list) = topic THEN Retain(Tail(list), topic)
    ELSE <<Head(list)>> \o Retain(Tail(list), topic)

Engine(c, subs, iss, result, sent) ==
    [client |-> c, subscriptions |-> subs, issued |-> iss, result |-> result, sent |-> sent]

\* subscribe_ticker on an engine with client c, subscription list subs and
\* issued frames iss; the transport accepts the first `accepted` frames and
\* rejects the next one.
\* subscribe_ticker that enters the key in the list before it sends the frame
RECURSIVE subscribe_ticker_pushes_first(_, _, _, _, _, _)
subscribe_ticker_pushes_first(c, subs, iss, ticker_id, topics, accepted) ==
    IF c = 0 THEN Engine(c, subs, iss, "WebSocketError", {})
    ELSE IF topics = <<>> THEN Engine(c, subs, iss, "Ok", {})
    ELSE LET topic == TickerKey(ticker_id, Head(topics)) IN
         IF accepted = 0 THEN Engine(c, Append(subs, topic), iss, "MqttError", {})
         ELSE LET rest == subscribe_ticker_pushes_first(c, Append(subs, topic),
                              iss \cup {topic}, ticker_id, Tail(topics), accepted - 1)
              IN [rest EXCEPT !.sent = @ \cup {Frame("subscribe", topic)}]

RECURSIVE subscribe_ticker(_, _, _, _, _, _)
subscribe_ticker(c, subs, iss, ticker_id, topics, accepted) ==
    IF c = 0 THEN Engine(c, subs, iss, "WebSocketError", {})
    ELSE IF topics = <<>> THEN Engine(c, subs, iss, "Ok", {})
    ELSE IF accepted = 0 THEN Engine(c, subs, iss, "MqttError", {})
    ELSE LET topic == TickerKey(ticker_id, Head(topics))
             rest == subscribe_ticker(c, Append(subs, topic), iss \cup {topic},
                                      ticker_id, Tail(topics), accepted - 1)
         IN [rest EXCEPT !.sent = @ \cup {Frame("subscribe", topic)}]

subscribe_orders(c, subs, iss, acct, accepted) ==
    IF c = 0 THEN Engine(c, subs, iss, "WebSocketError", {})
    ELSE IF accepted = 0 THEN Engine(c, subs, iss, "MqttError", {})
    ELSE LET topic == OrdersKey(acct) IN
         Engine(c, Append(subs, topic), iss \cup {topic}, "Ok", {Frame("subscribe", topic)})

RECURSIVE unsubscribe_ticker(_, _, _, _, _, _)
unsubscribe_ticker(c, subs, iss, ticker_id, topics, accepted) ==
    IF c = 0 THEN Engine(c, subs, iss, "WebSocketError", {})
    ELSE IF topics = <<>> THEN Engine(c, subs, iss, "Ok", {})
    ELSE IF accepted = 0 THEN Engine(c, subs, iss, "MqttError", {})
    ELSE LET topic == TickerKey(ticker_id, Head(topics))
             rest == unsubscribe_ticker(c, Retain(subs, topic), iss \ {topic},
                                        ticker_id, Tail(topics), accepted - 1)
         IN [rest EXCEPT !.sent = @ \cup {Frame("unsubscribe", topic)}]

\* The unsubscribe frames of the first n entries of the list
UnsubFrames(subs, n) == {Frame("unsubscribe", subs[i]) : i \in 1..n}

\* unsubscribe_all that sends the frames and leaves the list as it is
unsubscribe_all_keeps(c, subs, iss, accepted) ==
    IF c = 0 THEN Engine(c, subs, iss, "WebSocketError", {})
    ELSE IF accepted < Len(subs)
    THEN Engine(c, subs, iss \ {subs[i] : i \in 1..accepted}, "MqttError",
                UnsubFrames(subs, accepted))
    ELSE Engine(c, subs, iss \ Range(subs), "Ok", UnsubFrames(subs, Len(subs)))

unsubscribe_all(c, subs, iss, accepted) ==
    IF c = 0 THEN Engine(c, subs, iss, "WebSocketError", {})
    ELSE IF accepted < Len(subs)
    THEN Engine(c, subs, iss \ {subs[i] : i \in 1..accepted}, "MqttError",
                UnsubFrames(subs, accepted))
    ELSE Engine(c, <<>>, iss \ Range(subs), "Ok", UnsubFrames(subs, Len(subs)))

\* disconnect that does not look whether there is a client
disconnect_unguarded(c, subs, iss, connected, accepted, closeOk) ==
    LET u == unsubscribe_all(c, subs, iss, accepted) IN
    IF u.result # "Ok" THEN [e |-> u, is_connected |-> connected]
    ELSE IF ~closeOk
    THEN [e |-> Engine(0, u.subscriptions, {}, "MqttError", u.sent),
          is_connected |-> connected]
    ELSE [e |-> Engine(0, u.subscriptions, {}, "Ok",
                       u.sent \cup {Frame("disconnect", NoTopic)}),
          is_connected |-> FALSE]

\* disconnect; closeOk: the transport accepts the disconnect request.
\* The result carries the new value of is_connected as well.
disconnect(c, subs, iss, connected, accepted, closeOk) ==
    IF c # 0
    THEN LET u == unsubscribe_all(c, subs, iss, accepted) IN
         IF u.result # "Ok" THEN [e |-> u, is_connected |-> connected]
         ELSE IF ~closeOk
         THEN [e |-> Engine(0, u.subscriptions, {}, "MqttError", u.sent),
               is_connected |-> connected]
         ELSE [e |-> Engine(0, u.subscriptions, {}, "Ok",
                            u.sent \cup {Frame("disconnect", NoTopic)}),
               is_connected |-> FALSE]
    ELSE [e |-> Engine(c, subs, iss, "Ok", {}), is_connected |-> connected]

SetEngine(e) ==
    /\ client' = e.client
    /\ subscriptions' = e.subscriptions
    /\ issued' = e.issued

TopicLists == SeqsUpTo(TopicTypes, 2) \ {<<>>}

\* What a call was asked: the ticker (or account), the topic types in the
\* order given, and how many frames the transport accepts before it rejects
\* one.
Asked(id, topics, accepted) ==
    [k |-> "asked", id |-> id, topics |-> topics, accepted |-> accepted]

SubscribeTicker ==
    /\ pc = "idle"
    /\ \E ticker_id \in TickerIds, topics \in TopicLists :
       \E accepted \in 0..Len(topics) :
          LET e == subscribe_ticker(client, subscriptions, issued, ticker_id, topics, accepted) IN
          /\ Len(e.subscriptions) <= MaxSubs
          /\ SetEngine(e)
          /\ lastCall' = [Call("subscribe_ticker", e.result, e.sent, None)
                           EXCEPT !.arg = Asked(ticker_id, topics, accepted)]
    /\ UNCHANGED <<is_connected, net, pc, attempts>>
    /\ RestUnchanged

SubscribeOrders ==
    /\ pc = "idle"
    /\ \E acct \in StreamAccounts, accepted \in 0..1 :
          LET e == subscribe_orders(client, subscriptions, issued, acct, accepted) IN
          /\ Len(e.subscriptions) <= MaxSubs
          /\ SetEngine(e)
          /\ lastCall' = [Call("subscribe_orders", e.result, e.sent, None)
                           EXCEPT !.arg = Asked(acct, <<NoType>>, accepted)]
    /\ UNCHANGED <<is_connected, net, pc, attempts>>
    /\ RestUnchanged

UnsubscribeTicker ==
    /\ pc = "idle"
    /\ \E ticker_id \in TickerIds, topics \in TopicLists :
       \E accepted \in 0..Len(topics) :
          LET e == unsubscribe_ticker(client, subscriptions, issued, ticker_id, topics, accepted) IN
          /\ SetEngine(e)
          /\ lastCall' = [Call("unsubscribe_ticker", e.result, e.sent, None)
                           EXCEPT !.arg = Asked(ticker_id, topics, accepted)]
    /\ UNCHANGED <<is_connected, net, pc, attempts>>
    /\ RestUnchanged

UnsubscribeAll ==
    /\ pc = "idle"
    /\ \E accepted \in 0..Len(subscriptions) :
          LET e == unsubscribe_all(client, subscriptions, issued, accepted) IN
          /\ SetEngine(e)
          /\ lastCall' = Call("unsubscribe_all", e.result, e.sent, None)
    /\ UNCHANGED <<is_connected, net, pc, attempts>>
    /\ RestUnchanged

Disconnect ==
    /\ pc = "idle"
    /\ \E accepted \in 0..Len(subscriptions), closeOk \in BOOLEAN :
          LET d == disconnect(client, subscriptions, issued, is_connected, accepted, closeOk) IN
          /\ SetEngine(d.e)
          /\ is_connected' = d.is_connected
          /\ lastCall' = Call("disconnect", d.e.result, d.e.sent, None)
    /\ UNCHANGED <<net, pc, attempts>>
    /\ RestUnchanged

\* connect(): create the client and its event loop, spawn the task ...
ConnectStart ==
    /\ pc = "idle"
    /\ \E i \in DOMAIN net :
          /\ net[i] = "unspawned"
          /\ \A j \in DOMAIN net : j < i => net[j] # "unspawned"
          /\ client' = i
          /\ net' = [net EXCEPT ![i] = "connecting"]
    /\ issued' = {}
    /\ pc' = "connect"
    /\ attempts' = 0
    /\ lastCall' = Call("connect", "pending", {}, None)
    /\ UNCHANGED <<subscriptions, is_connected>>
    /\ RestUnchanged

\* ... sleep 500 ms while the flag is false and attempts < 10 ...
ConnectWait ==
    /\ pc = "connect"
    /\ ~is_connected
    /\ attempts < MaxAttempts
    /\ attempts' = attempts + 1
    /\ UNCHANGED <<client, subscriptions, is_connected, net, issued, pc, lastCall>>
    /\ RestUnchanged

\* ... and return by the value of the flag.
ConnectReturn ==
    /\ pc = "connect"
    /\ is_connected \/ attempts >= MaxAttempts
    /\ pc' = "idle"
    /\ attempts' = 0
    /\ lastCall' = Call("connect", IF is_connected THEN "Ok" ELSE "WebSocketError", {}, None)
    /\ UNCHANGED <<client, subscriptions, is_connected, net, issued>>
    /\ RestUnchanged

\* The background task of connection i polls its event loop; lastCall
\* records the event it handled and, as arg, the task that handled it.
\* Event::Incoming(Packet::ConnAck): the event loop (re)connected.
PollConnAck(i) ==
    /\ net[i] \in {"connecting", "dropped"}
    /\ net' = [net EXCEPT ![i] = IF net[i] = "connecting" THEN "up" ELSE "reup"]
    /\ is_connected' = TRUE
    /\ lastCall' = [Call("poll", "ConnAck", {}, None) EXCEPT !.arg = JNum(i)]
    /\ UNCHANGED <<client, subscriptions, issued, pc, attempts>>
    /\ RestUnchanged

\* Event::Incoming(Packet::Disconnect)
PollDisconnect(i) ==
    /\ net[i] \in {"up", "reup"}
    /\ is_connected' = FALSE
    /\ lastCall' = [Call("poll", "Disconnect", {}, None) EXCEPT !.arg = JNum(i)]
    /\ UNCHANGED <<client, subscriptions, net, issued, pc, attempts>>
    /\ RestUnchanged

\* The Err branch without the write of the flag
PollError_keeps_flag(i) ==
    /\ net[i] # "unspawned"
    /\ net' = [net EXCEPT ![i] = IF net[i] = "connecting" THEN "connecting" ELSE "dropped"]
    /\ issued' = IF i = client /\ net[i] \in {"up", "reup"} THEN {} ELSE issued
    /\ lastCall' = [Call("poll", "Err", {}, None) EXCEPT !.arg = JNum(i)]
    /\ UNCHANGED <<client, subscriptions, is_connected, pc, attempts>>
    /\ RestUnchanged

\* Err(e): the connection failed or was lost; the task sleeps 5 s and polls
\* again.  Frames handed over on the lost connection are gone with it.
PollError(i) ==
    /\ net[i] # "unspawned"
    /\ net' = [net EXCEPT ![i] = IF net[i] = "connecting" THEN "connecting" ELSE "dropped"]
    /\ is_connected' = FALSE
    /\ issued' = IF i = client /\ net[i] \in {"up", "reup"} THEN {} ELSE issued
    /\ lastCall' = [Call("poll", "Err", {}, None) EXCEPT !.arg = JNum(i)]
    /\ UNCHANGED <<client, subscriptions, pc, attempts>>
    /\ RestUnchanged

Init ==
    /\ variant \in {"Live", "Paper"}
    /\ NewClient
    /\ NewStream
    /\ NoListing
    /\ NoOrder
    /\ NoAux
    /\ price_callback = FALSE
    /\ order_callback = FALSE

Next ==
    \/ Login
    \/ RefreshLogin
    \/ GetTradeToken
    \/ Logout
    \/ GetAccountId
    \/ PlaceOrder
    \/ CancelOrder

Spec == Init /\ [][Next]_vars

StreamInit ==
    /\ variant = "Live"
    /\ NewClient
    /\ NewStream
    /\ NoListing
    /\ NoOrder
    /\ NoAux
    /\ price_callback = FALSE
    /\ order_callback = FALSE

StreamNext ==
    \/ ConnectStart
    \/ ConnectWait
    \/ ConnectReturn
    \/ SubscribeTicker
    \/ SubscribeOrders
    \/ UnsubscribeTicker
    \/ UnsubscribeAll
    \/ Disconnect
    \/ \E i \in Tasks : PollConnAck(i)
    \/ \E i \in Tasks : PollDisconnect(i)
    \/ \E i \in Tasks : PollError(i)

StreamSpec == StreamInit /\ [][StreamNext]_vars

\* ------------------------------------------------------------------------
\* The life cycle of the engine: several connect() and disconnect() calls
\* ------------------------------------------------------------------------
Connections == 1..MaxConnects

\* The task connect() spawned for connection i is in its loop: the loop has
\* no break and no return, so a task that was spawned is running.
TaskRunning(i) == net[i] # "unspawned"

LifecycleInit ==
    /\ variant = "Live"
    /\ NewClient
    /\ client = 0
    /\ subscriptions = <<>>
    /\ is_connected = FALSE
    /\ total_volume = [t \in TickerIds |-> NoVolume]
    /\ net = [i \in Connections |-> "unspawned"]
    /\ issued = {}
    /\ pc = "idle"
    /\ attempts = 0
    /\ handled = [topic |-> NoTopic, payload |-> Payload(FALSE, JAbsent),
                  callback |-> "new", after_malformed |-> FALSE]
    /\ NoListing
    /\ NoOrder
    /\ NoAux
    /\ price_callback = FALSE
    /\ order_callback = FALSE

TaskStep(i) == PollConnAck(i) \/ PollDisconnect(i) \/ PollError(i)

LifecycleNext ==
    \/ ConnectStart
    \/ ConnectWait
    \/ ConnectReturn
    \/ SubscribeOrders
    \/ Disconnect
    \/ \E i \in Connections : PollConnAck(i)
    \/ \E i \in Connections : PollDisconnect(i)
    \/ \E i \in Connections : PollError(i)

LifecycleSpec == LifecycleInit /\ [][LifecycleNext]_vars

\* The runtime keeps scheduling a spawned task, and connect() goes on once
\* its sleep is over.
FairLifecycleSpec ==
    /\ LifecycleSpec
    /\ \A i \in Connections : WF_vars(TaskStep(i))
    /\ WF_vars(ConnectWait \/ ConnectReturn)

\* ------------------------------------------------------------------------
\* Event dispatch (StreamConn::handle_message)
\* ------------------------------------------------------------------------
Volumes == {1, 2}
Words == {"platpush", "wspush"}

\* Topics of incoming publish frames: the keys the engine subscribes with,
\* topics that carry a channel word, a numeric tickerId, and text that is
\* not JSON.
WireTopics ==
    {TickerKey(t, ty) : t \in TickerIds, ty \in TopicTypes}
    \cup {OrdersKey(a) : a \in StreamAccounts}
    \cup {Topic(TRUE, JAbsent, NoType, a, {w}) : a \in StreamAccounts, w \in Words}
    \cup {Topic(TRUE, JNum(9), TICKER_QUOTE, None, {})}
    \cup {Topic(FALSE, JAbsent, NoType, None, ws) : ws \in {{}, {"platpush"}, {"wspush"}}}
    \cup {Topic(FALSE, JStr(t), TICKER_QUOTE, None, {}) : t \in TickerIds}

\* Payloads: JSON with the volume as a number, as a string or without it,
\* and bytes that are not JSON.
WirePayloads ==
    {Payload(TRUE, JNum(v)) : v \in Volumes}
    \cup {Payload(TRUE, JStr("1")), Payload(TRUE, JAbsent), Payload(FALSE, JAbsent)}

\* topic.contains(word) on the text of the topic: "tickerId" contains
\* "ticker".
Contains(topic, word) ==
    \/ word \in topic.words
    \/ word = "ticker" /\ topic.tickerId.k # "absent"

Dispatched(callback, tv) == [callback |-> callback, total_volume |-> tv]

\* handle_message that skips the check of the payload
handle_message_unchecked(topic, payload, price_cb, order_cb, tv) ==
    IF ~topic.json THEN Dispatched("none", tv)
    ELSE IF Contains(topic, "platpush")
    THEN Dispatched(IF order_cb THEN "order" ELSE "none", tv)
    ELSE IF Contains(topic, "wspush") \/ Contains(topic, "ticker")
    THEN Dispatched(IF price_cb THEN "price" ELSE "none",
                    IF topic.tickerId.k = "str" /\ payload.volume.k = "num"
                    THEN [tv EXCEPT ![topic.tickerId.v] = payload.volume.v]
                    ELSE tv)
    ELSE Dispatched("none", tv)

\* The callback invoked (none, price, order) and the new volume map.
handle_message(topic, payload, price_cb, order_cb, tv) ==
    IF ~topic.json THEN Dispatched("none", tv)
    ELSE IF ~payload.json THEN Dispatched("none", tv)
    ELSE IF Contains(topic, "platpush")
    THEN Dispatched(IF order_cb THEN "order" ELSE "none", tv)
    ELSE IF Contains(topic, "wspush") \/ Contains(topic, "ticker")
    THEN Dispatched(IF price_cb THEN "price" ELSE "none",
                    IF topic.tickerId.k = "str" /\ payload.volume.k = "num"
                    THEN [tv EXCEPT ![topic.tickerId.v] = payload.volume.v]
                    ELSE tv)
    ELSE Dispatched("none", tv)

Malformed(h) == ~h.topic.json \/ ~h.payload.json

\* Event::Incoming(Packet::Publish(publish)) in the task of connection i
PollPublish(i) ==
    /\ net[i] \in {"up", "reup"}
    /\ \E topic \in WireTopics, payload \in WirePayloads :
          LET d == handle_message(topic, payload, price_callback, order_callback,
                                  total_volume) IN
          /\ total_volume' = d.total_volume
          /\ handled' = [topic |-> topic, payload |-> payload, callback |-> d.callback,
                         after_malformed |-> handled.callback # "new" /\ Malformed(handled)]
    /\ lastCall' = [Call("poll", "Publish", {}, None) EXCEPT !.arg = JNum(i)]
    /\ UNCHANGED <<variant, sessionVars, streamVars, price_callback, order_callback,
                   listingVars, gatewayVars, auxVars>>

\* A connection that connect() has established, with the callbacks that were
\* registered (or not) before connect() captured them.
DispatchInit ==
    /\ variant = "Live"
    /\ access_token = None
    /\ refresh_token = None
    /\ trade_token = None
    /\ token_expire = NoTime
    /\ uuid = None
    /\ account_id = None
    /\ paper_account_id = None
    /\ lastCall = Call("connect", "Ok", {}, None)
    /\ client = 1
    /\ subscriptions = <<>>
    /\ is_connected = TRUE
    /\ total_volume = [t \in TickerIds |-> NoVolume]
    /\ net = [i \in Tasks |-> IF i = 1 THEN "up" ELSE "unspawned"]
    /\ issued = {}
    /\ pc = "idle"
    /\ attempts = 0
    /\ handled = [topic |-> NoTopic, payload |-> Payload(FALSE, JAbsent),
                  callback |-> "new", after_malformed |-> FALSE]
    /\ price_callback \in BOOLEAN
    /\ order_callback \in BOOLEAN
    /\ NoListing
    /\ NoOrder
    /\ NoAux

\* A paper client after a successful login, against a server that holds some
\* order history.
OrdersInit ==
    /\ variant = "Paper"
    /\ access_token \in AccessTokens
    /\ refresh_token \in RefreshTokens
    /\ trade_token = None
    /\ token_expire \in ExpireTimes
    /\ uuid \in Uuids
    /\ account_id \in AccountIdStrings
    /\ paper_account_id \in AccountIdStrings
    /\ lastCall = Call("login", "Ok",
                       {PlainRequest("login"),
                        [ep |-> "account_id", access_token |-> access_token, t_token |-> None],
                        [ep |-> "paper_account_id", access_token |-> access_token,
                         t_token |-> None]}, None)
    /\ NewStream
    /\ price_callback = FALSE
    /\ order_callback = FALSE
    /\ history \in Histories
    /\ open_orders = <<>>
    /\ NoOrder
    /\ NoAux

OrdersNext == GetOrders

OrdersSpec == OrdersInit /\ [][OrdersNext]_vars

\* The session fields after a successful login.
LoggedIn ==
    /\ access_token \in AccessTokens
    /\ refresh_token \in RefreshTokens
    /\ token_expire \in ExpireTimes
    /\ uuid \in Uuids
    /\ account_id \in AccountIdStrings
    /\ paper_account_id \in IF variant = "Paper" THEN AccountIdStrings ELSE {None}

LoginRequests ==
    {PlainRequest("login"),
     [ep |-> "account_id", access_token |-> access_token, t_token |-> None]}
    \cup IF variant = "Paper"
         THEN {[ep |-> "paper_account_id", access_token |-> access_token,
                t_token |-> None]}
         ELSE {}

\* A client after login and get_trade_token, whose caller holds some order.
GatewayInit ==
    /\ variant \in {"Live", "Paper"}
    /\ LoggedIn
    /\ trade_token \in TradeTokens
    /\ lastCall = Call("get_trade_token", "Ok",
                       {[ep |-> "trade_token", access_token |-> access_token,
                         t_token |-> None]}, trade_token)
    /\ NewStream
    /\ price_callback = FALSE
    /\ order_callback = FALSE
    /\ NoListing
    /\ order \in Orders
    /\ submitted = <<>>
    /\ NoAux

GatewayNext == PlaceOrder

GatewaySpec == GatewayInit /\ [][GatewayNext]_vars

\* ------------------------------------------------------------------------
\* Callers of refresh_login on one client
\* ------------------------------------------------------------------------
\* refresh_login takes &mut self: a caller runs it only while it holds the
\* client exclusively, from the call until the Result is returned; a caller
\* that wants to refresh meanwhile waits for the client.
Callers == 1..MaxCallers

\* A caller asks for a refresh while another one holds the client.
RefreshAsk(c) ==
    /\ flight.holder # 0
    /\ c # flight.holder
    /\ c \notin flight.waiting
    /\ flight' = [flight EXCEPT !.waiting = @ \cup {c}]
    /\ UNCHANGED <<variant, sessionVars, lastCall, streamVars, dispatchVars, listingVars,
                   gatewayVars, parsed, now>>

\* A caller gets the client and enters refresh_login: without a refresh
\* token it returns at once, otherwise the request is sent.
RefreshStart(c) ==
    /\ flight.holder = 0
    /\ IF refresh_token = None
       THEN /\ flight' = [flight EXCEPT !.waiting = @ \ {c}]
            /\ lastCall' = Call("refresh_login", "SessionExpired", {}, None)
       ELSE /\ flight.requests < MaxRefreshes
            /\ flight' = [holder |-> c, waiting |-> flight.waiting \ {c},
                          requests |-> flight.requests + 1]
            /\ lastCall' = Call("refresh_login", "pending",
                                {PlainRequest("refresh_login")}, None)
    /\ UNCHANGED <<variant, sessionVars, streamVars, dispatchVars, listingVars,
                   gatewayVars, parsed, now>>

\* The response arrives; refresh_login stores what it holds and returns.
RefreshFinish ==
    /\ flight.holder # 0
    /\ \E resp \in LoginResponses :
          LET o == refresh_login(Base, resp) IN
          /\ SetBase(o.s)
          /\ lastCall' = Call("refresh_login", o.result, o.sent, None)
    /\ flight' = [flight EXCEPT !.holder = 0]
    /\ UNCHANGED <<variant, paper_account_id, streamVars, dispatchVars, listingVars,
                   gatewayVars, parsed, now>>

\* A client after a successful login, shared by the callers.
RefreshInit ==
    /\ variant \in {"Live", "Paper"}
    /\ LoggedIn
    /\ trade_token = None
    /\ lastCall = [Call("login", "Ok", LoginRequests, None) EXCEPT !.arg = JStr("ok")]
    /\ NewStream
    /\ price_callback = FALSE
    /\ order_callback = FALSE
    /\ NoListing
    /\ NoOrder
    /\ NoAux

RefreshNext ==
    \/ \E c \in Callers : RefreshAsk(c)
    \/ \E c \in Callers : RefreshStart(c)
    \/ RefreshFinish

RefreshSpec == RefreshInit /\ [][RefreshNext]_vars

\* ------------------------------------------------------------------------
\* The clock
\* ------------------------------------------------------------------------
Tick ==
    /\ now < MaxTime
    /\ now' = now + 1
    /\ UNCHANGED <<variant, sessionVars, lastCall, streamVars, dispatchVars, listingVars,
                   gatewayVars, parsed, flight>>

\* A client after a successful login, with or without a trade token.
ExpiryInit ==
    /\ variant \in {"Live", "Paper"}
    /\ LoggedIn
    /\ trade_token \in TradeTokens \cup {None}
    /\ lastCall = IF trade_token = None
                  THEN [Call("login", "Ok", LoginRequests, None) EXCEPT !.arg = JStr("ok")]
                  ELSE Call("get_trade_token", "Ok",
                            {[ep |-> "trade_token", access_token |-> access_token,
                              t_token |-> None]}, trade_token)
    /\ NewStream
    /\ price_callback = FALSE
    /\ order_callback = FALSE
    /\ NoListing
    /\ NoOrder
    /\ NoAux

ExpiryNext ==
    \/ Tick
    \/ GetTradeToken
    \/ GetAccountId
    \/ PlaceOrder
    \/ CancelOrder
    \/ Logout

ExpirySpec == ExpiryInit /\ [][ExpiryNext]_vars

\* ------------------------------------------------------------------------
\* Account resolution over every listing
\* ------------------------------------------------------------------------
\* WebullClient::get_account_id on the live client, the listing recorded
ResolveLive ==
    /\ variant = "Live"
    /\ \E resp \in LiveAccountResponses :
          LET o == get_account_id(Base, resp) IN
          /\ SetBase(o.s)
          /\ lastCall' = [Call("get_account_id", o.result, o.sent,
                                IF o.result = "Ok" THEN o.s.account_id ELSE None)
                              EXCEPT !.arg = resp]
    /\ UNCHANGED <<variant, paper_account_id, streamVars, dispatchVars, listingVars,
                   gatewayVars, auxVars>>

\* WebullClient::login on the paper client, the login and the live listing
\* answered well, the paper listing recorded
ResolvePaper ==
    /\ variant = "Paper"
    /\ \E resp \in {b \in LoginBodies : LoginResponseDecodes(b)},
          acctResp \in {c \in LiveAccountCases : LiveAccountKey(c).ok},
          paperResp \in PaperAccountResponses :
          LET o == login(Base, "ok", resp, acctResp)
              p == get_paper_account_id(o.s, paper_account_id, paperResp)
          IN /\ SetBase(o.s)
             /\ paper_account_id' = p.pid
             /\ lastCall' = [Call("login", p.result, o.sent \cup p.sent, None)
                                 EXCEPT !.arg = paperResp]
    /\ UNCHANGED <<variant, streamVars, dispatchVars, listingVars, gatewayVars, auxVars>>

ResolveNext ==
    \/ ResolveLive
    \/ ResolvePaper

ResolveSpec == Init /\ [][ResolveNext]_vars

ParseNext ==
    \/ ParsePaperOrder
    \/ DeserializeOrder

ParseSpec == Init /\ [][ParseNext]_vars

DispatchNext == \E i \in Tasks : PollPublish(i)

DispatchSpec == DispatchInit /\ [][DispatchNext]_vars

\* ------------------------------------------------------------------------
\* Properties of the session and the order gateway (specification Spec)
\* ------------------------------------------------------------------------
\* The account the order calls operate against
ResolvedAccount == IF variant = "Live" THEN account_id ELSE paper_account_id

\* C1: in every reachable state the session holds no trade_token while its
\* access_token is absent.
C1_TradeTokenOnlyWithAccessToken == trade_token # None => access_token # None

\* C3: with an account resolved and no trade_token, place_order and
\* cancel_order return TradeTokenNotAvailable and send no request, on the
\* live and on the paper client.
C3_OrderCallsNeedTradeToken ==
    (/\ lastCall.op \in {"place_order", "cancel_order"}
     /\ ResolvedAccount # None
     /\ trade_token = None)
    => (lastCall.result = "TradeTokenNotAvailable" /\ lastCall.sent = {})

\* C4: logout clears every session field whatever the server answers, and
\* returns true only when the server acknowledged.
C4_LogoutAlwaysClears ==
    [][(lastCall'.op = "logout" /\ lastCall'.http # None) =>
          /\ access_token' = None
          /\ refresh_token' = None
          /\ trade_token' = None
          /\ token_expire' = NoTime
          /\ uuid' = None
          /\ account_id' = None
          /\ (lastCall'.result = "OkTrue" <=> lastCall'.http = "success")]_vars

\* C5: after a logout the server acknowledged, the access token, refresh
\* token, trade token, token expiry and the resolved account id are absent,
\* on the live and on the paper client.
C5_AcknowledgedLogoutClearsAll ==
    (lastCall.op = "logout" /\ lastCall.result = "OkTrue")
    => /\ access_token = None
       /\ refresh_token = None
       /\ trade_token = None
       /\ token_expire = NoTime
       /\ ResolvedAccount = None

\* C6: a failed get_trade_token leaves access_token and the resolved account
\* id (and every other session field) as they were.
C6_FailedTradeTokenChangesNothing ==
    [][(lastCall'.op = "get_trade_token" /\ lastCall'.result # "Ok")
          => UNCHANGED sessionVars]_vars

\* A failed elevation on a logged-in session with a resolved account.
C6_Witness ==
    /\ lastCall.op = "get_trade_token"
    /\ lastCall.result = "AuthenticationError"
    /\ access_token # None
    /\ ResolvedAccount # None

\* ------------------------------------------------------------------------
\* Properties of the streaming connection (specification StreamSpec)
\* ------------------------------------------------------------------------
NoDuplicates(list) == \A i, j \in 1..Len(list) : i # j => list[i] # list[j]

\* C2: once the engine has reconnected after a transport drop, a subscribe
\* frame has been issued on the new connection for every topic still in the
\* subscription list; and the background task never changes the list.
C2_ResubscribedAfterReconnect ==
    /\ [](client # 0 /\ net[client] = "reup"
            => \A k \in 1..Len(subscriptions) : subscriptions[k] \in issued)
    /\ [][lastCall'.op = "poll" => subscriptions' = subscriptions]_vars

\* C7: the subscription list holds each topic key at most once, and no
\* subscribe frame is sent for a key that is already held.
C7_SubscribeIdempotent ==
    /\ []NoDuplicates(subscriptions)
    /\ [][\A f \in lastCall'.sent :
             f.ep = "subscribe" => f.topic \notin Range(subscriptions)]_vars

C9_MalformedFrameDropped ==
    /\ [][(lastCall'.result = "Publish" /\ Malformed(handled'))
            => /\ handled'.callback = "none"
               /\ total_volume' = total_volume
               /\ net' = net]_vars
    /\ []((handled.after_malformed /\ ~Malformed(handled))
            => /\ (price_callback /\ handled.topic.tickerId.k = "str"
                      /\ ~Contains(handled.topic, "platpush"))
                     => handled.callback = "price"
               /\ (order_callback /\ Contains(handled.topic, "platpush"))
                     => handled.callback = "order")

\* A well-formed per-ticker frame delivered to the price callback right after
\* a malformed frame was dropped.
C9_Witness ==
    /\ handled.after_malformed
    /\ ~Malformed(handled)
    /\ handled.topic \in {TickerKey(t, ty) : t \in TickerIds, ty \in TopicTypes}
    /\ handled.callback = "price"

\* ------------------------------------------------------------------------
\* Properties of the paper order listing (specification OrdersSpec)
\* ------------------------------------------------------------------------
\* The text of an order identifier sent as a string or as a number
IdText(v) == IF v.k = "str" THEN v.v ELSE NumberToString(v.v)

IsWorking(order_val) == order_val.status = "Working"

\* C10: when the order history holds n orders with status "Working",
\* get_orders on the paper client returns exactly those n orders, in order,
\* each with status Working, whatever the account snapshot holds.
C10_PaperOpenOrdersAreTheWorkingOnes ==
    (lastCall.op = "get_orders" /\ lastCall.result = "Ok" /\ history.is_array)
    => LET working == SelectSeq(history.orders, IsWorking) IN
       /\ Len(open_orders) = Len(working)
       /\ \A k \in 1..Len(working) :
             /\ open_orders[k].order_id = IdText(working[k].orderId)
             /\ open_orders[k].status = "Working"

\* ------------------------------------------------------------------------
\* Order validation and idempotency key
\* ------------------------------------------------------------------------
\* C13: an order whose type needs a price it does not have (Limit without a
\* limit price, Stop without a stop price, StopLimit without either) is
\* rejected by place_order with no request sent, whichever way it was built.
C13_PlaceRejectsMissingPrices ==
    (lastCall.op = "place_order"
        /\ ~PricesPresent(order.order_type, order.limit_price, order.stop_price))
    => (lastCall.sent = {} /\ lastCall.result \notin {"Ok", "ApiError", "RequestError"})

\* C14: every placement request for an order that has a serialId carries
\* that serialId, so two submissions of the order carry the identical key;
\* a placement leaves the client's own state as it was (it keeps no count
\* of placements).
C14_SameKeyOnEverySubmission ==
    /\ [](order.serial_id.k # "absent"
            => \A i \in 1..Len(submitted) : submitted[i] = order.serial_id)
    /\ [][submitted' # submitted
            => /\ \A f \in lastCall'.sent : f.serialId = order.serial_id
               /\ UNCHANGED <<sessionVars, order>>]_vars

C14_Witness ==
    /\ order.serial_id.k = "str"
    /\ Len(submitted) = 2
    /\ submitted[1] = submitted[2]
    /\ lastCall.op = "place_order"
    /\ lastCall.result = "Ok"

C12_BothSpellingsAreCancelled ==
    (parsed.by # "none" /\ parsed.input.status \in {"Canceled", "Cancelled"})
    => /\ \A spelling \in {"Canceled", "Cancelled"} :
            Decode(parsed.by, [parsed.input EXCEPT !.status = spelling]).ok = parsed.ok
       /\ parsed.ok => parsed.order.status = "Cancelled"

\* ------------------------------------------------------------------------
\* Refresh
\* ------------------------------------------------------------------------
\* C15: at most one refresh request is in flight, and a caller that asked
\* for a refresh while one was in flight is served by that one: when that
\* refresh has succeeded and the caller stops waiting, no further refresh
\* request has been sent.
C15_RefreshSingleFlight ==
    /\ [](flight.holder \notin flight.waiting)
    /\ [][\A c \in Callers :
            (c \in flight.waiting /\ c \notin flight'.waiting /\ lastCall.result = "Ok")
            => flight'.requests = flight.requests]_vars

\* C16: refresh_login on a session with no refresh_token returns
\* SessionExpired, sends no request and changes no session field.
C16_RefreshWithoutTokenIsRefused ==
    [][(lastCall'.op = "refresh_login" /\ refresh_token = None)
        => /\ lastCall'.result = "SessionExpired"
           /\ lastCall'.sent = {}
           /\ UNCHANGED sessionVars]_vars

C16_Witness ==
    /\ lastCall.op = "refresh_login"
    /\ lastCall.result = "SessionExpired"
    /\ lastCall.sent = {}
    /\ refresh_token = None
    /\ access_token # None

\* ------------------------------------------------------------------------
\* Account cache and login arguments
\* ------------------------------------------------------------------------
\* C17: once the account is resolved, no call other than login (and logout,
\* which ends the session) sends an account-resolution request or changes
\* the account id the client holds.
C17_AccountResolvedOncePerSession ==
    [][(ResolvedAccount # None /\ lastCall'.op \notin {"login", "logout"})
        => /\ \A f \in lastCall'.sent : f.ep \notin {"account_id", "paper_account_id"}
           /\ ResolvedAccount' = ResolvedAccount]_vars

\* C19: login with an empty username or an empty password returns
\* InvalidParameter, sends no request and changes no session field.
C19_EmptyCredentialsAreRefused ==
    [][(lastCall'.op = "login"
          /\ lastCall'.arg \in {JStr("empty_username"), JStr("empty_password")})
        => /\ lastCall'.result = "InvalidParameter"
           /\ lastCall'.sent = {}
           /\ UNCHANGED sessionVars]_vars

C19_Witness ==
    /\ lastCall.op = "login"
    /\ lastCall.arg = JStr("empty_password")
    /\ lastCall.result = "InvalidParameter"
    /\ lastCall.sent = {}
    /\ access_token # None

\* ------------------------------------------------------------------------
\* Token expiry
\* ------------------------------------------------------------------------
\* C18: once the stored token_expire has passed, a call that needs the
\* access token or the trade token is refused: it sends no request.
C18_ExpiredSessionIsRefused ==
    [][(token_expire # NoTime /\ now > token_expire /\ now' = now
          /\ lastCall'.op \in {"get_trade_token", "get_account_id", "place_order",
                               "cancel_order"})
        => lastCall'.sent = {}]_vars

\* ------------------------------------------------------------------------
\* Account resolution
\* ------------------------------------------------------------------------
\* The array of records a listing response holds, <<>> when it holds none
ListingRecords(resp) ==
    LET arr == IF "is_array" \in DOMAIN resp /\ resp.is_array THEN Array(resp.items)
               ELSE resp.data
    IN IF arr.has_array THEN arr.items ELSE <<>>

\* C20: account resolution answers with the id of the first record of the
\* listing that has a string or number id, and with AccountNotFound only
\* when no record has one; for the live listing and both paper shapes.
C20_FirstUsableRecordIsResolved ==
    (lastCall.op \in {"get_account_id", "login"} /\ "data" \in DOMAIN lastCall.arg)
    => LET list == ListingRecords(lastCall.arg)
           usable == {k \in 1..Len(list) : list[k].k \in {"str", "num"}}
       IN IF usable = {} THEN lastCall.result = "AccountNotFound"
          ELSE /\ lastCall.result = "Ok"
               /\ ResolvedAccount =
                      IdText(list[CHOOSE k \in usable : \A j \in usable : k <= j])

Acknowledged(i) == net[i] \in {"up", "dropped", "reup"}

\* C22: connect() polls at most 10 times; it returns Ok only when a connect
\* acknowledgement of the connection it has just opened was observed, and
\* WebSocketError only once the 10 attempts are used up with the flag still
\* false.
C22_ConnectReturnsAfterBoundedWait ==
    /\ [](attempts <= MaxAttempts)
    /\ []((lastCall.op = "connect" /\ lastCall.result = "Ok") => Acknowledged(client))
    /\ [][(lastCall'.op = "connect" /\ lastCall'.result = "WebSocketError")
            => (attempts = MaxAttempts /\ ~is_connected)]_vars

\* C23: once disconnect() has closed the connection and returned Ok, every
\* background task that was spawned before eventually leaves its poll loop.
C23_TaskExitsAfterDisconnect ==
    \A i \in Connections :
        (lastCall.op = "disconnect" /\ lastCall.result = "Ok" /\ TaskRunning(i))
            ~> ~TaskRunning(i)

\* ------------------------------------------------------------------------
\* Properties of the routing of events (specification DispatchSpec)
\* ------------------------------------------------------------------------
\* C24: a well-formed message on the topic key subscribe_orders builds reaches
\* the registered order callback, and a well-formed message on a topic key
\* subscribe_ticker builds reaches the registered price callback.
C24_TopicKeysAreRouted ==
    (handled.callback # "new" /\ ~Malformed(handled))
    => /\ (order_callback /\ handled.topic \in {OrdersKey(a) : a \in StreamAccounts})
             => handled.callback = "order"
       /\ (price_callback
              /\ handled.topic \in {TickerKey(t, ty) : t \in TickerIds, ty \in TopicTypes})
             => handled.callback = "price"

\* C25: an entry of the volume map changes only when a well-formed Quote
\* event of that ticker is dispatched; every other event the task handles
\* leaves the map as it is.
C25_VolumeWrittenByQuotesOnly ==
    [][total_volume' # total_volume
          => /\ lastCall'.result = "Publish"
             /\ ~Malformed(handled')
             /\ handled'.topic.type = TICKER_QUOTE
             /\ \A t \in TickerIds :
                   total_volume'[t] # total_volume[t] => handled'.topic.tickerId = JStr(t)]_vars

\* ------------------------------------------------------------------------
\* Properties of the session around login and logout (specification Spec)
\* ------------------------------------------------------------------------
\* C26: place_order and cancel_order send no request while the session has
\* no access_token, on the live and on the paper client.
C26_NoOrderRequestWithoutAccessToken ==
    (lastCall.op \in {"place_order", "cancel_order"} /\ access_token = None)
    => lastCall.sent = {}

\* C27: a login that returns an error leaves every session field as it was
\* before the call.
C27_FailedLoginChangesNothing ==
    [][(lastCall'.op = "login" /\ lastCall'.result # "Ok")
          => UNCHANGED sessionVars]_vars

\* ------------------------------------------------------------------------
\* Properties of the tasks of one engine (specification LifecycleSpec)
\* ------------------------------------------------------------------------
\* C28: whatever connect() and disconnect() calls were made, at most one
\* background task (with its transport connection) exists for the engine,
\* and the connected flag is written only by disconnect() and by the task
\* of the engine's current connection.
C28_OneTaskPerEngine ==
    /\ [](Cardinality({i \in DOMAIN net : TaskRunning(i)}) <= 1)
    /\ [][is_connected' # is_connected
            => \/ lastCall'.op = "disconnect"
               \/ lastCall'.op = "poll" /\ lastCall'.arg = JNum(client)]_vars

\* C29: once disconnect() has closed the connection and returned Ok the flag
\* is false, and an event the background task handles after disconnect()
\* returned Ok, with no connect() in between, does not set it.
C29_StaysDisconnected ==
    /\ []((lastCall.op = "disconnect" /\ lastCall.result = "Ok" /\ lastCall.sent # {})
            => ~is_connected)
    /\ [][(/\ lastCall.op = "disconnect"
           /\ lastCall.result = "Ok"
           /\ ~is_connected
           /\ lastCall'.op = "poll")
            => ~is_connected']_vars

\* ------------------------------------------------------------------------
\* Properties of the subscription list (specification StreamSpec)
\* ------------------------------------------------------------------------
SubscriptionCalls ==
    {"subscribe_ticker", "subscribe_orders", "unsubscribe_ticker", "unsubscribe_all"}

\* C30: the subscription list holds exactly the topic keys whose most recent
\* accepted frame is a subscribe frame.  Stated call by call, also for a call
\* that fails part-way: a key with an accepted subscribe frame is held after
\* the call, a key with an accepted unsubscribe frame is not, and a key with
\* no accepted frame is held after the call exactly if it was held before.
C30_ListFollowsAcceptedFrames ==
    [][lastCall'.op \in SubscriptionCalls
          => /\ \A f \in lastCall'.sent :
                   /\ f.ep = "subscribe" => f.topic \in Range(subscriptions')
                   /\ f.ep = "unsubscribe" => f.topic \notin Range(subscriptions')
             /\ \A k \in Range(subscriptions) \cup Range(subscriptions') :
                   (\A f \in lastCall'.sent : f.topic # k)
                      => (k \in Range(subscriptions) <=> k \in Range(subscriptions'))]_vars

\* The number of entries of the list equal to the key
Count(key, list) == Cardinality({i \in 1..Len(list) : list[i] = key})

\* The key of the j-th frame of the call lastCall records
AskedKey(call, j) ==
    IF call.op = "subscribe_orders" THEN OrdersKey(call.arg.id)
    ELSE TickerKey(call.arg.id, call.arg.topics[j])

\* C31: a subscribe call adds a key to the subscription list once for each
\* subscribe frame of that key the transport accepted, and nothing else; when
\* the transport rejects a frame, the key of that frame is not added for it
\* and the call returns an error.
C31_KeyAddedOnlyWhenAccepted ==
    [][(lastCall'.op \in {"subscribe_ticker", "subscribe_orders"} /\ client # 0)
          => LET call == lastCall'
                 n == call.arg.accepted
             IN /\ \A key \in Range(subscriptions') \cup {AskedKey(call, j) : j \in 1..Len(call.arg.topics)} :
                      Count(key, subscriptions') - Count(key, subscriptions)
                         = Cardinality({j \in 1..n : AskedKey(call, j) = key})
                /\ \A f \in call.sent : f.ep = "subscribe" /\ \E j \in 1..n : f.topic = AskedKey(call, j)
                /\ n < Len(call.arg.topics) => call.result = "MqttError"]_vars

\* subscribe_ticker whose second frame the transport rejected
C31_Witness ==
    /\ lastCall.op = "subscribe_ticker"
    /\ lastCall.result = "MqttError"
    /\ lastCall.arg.accepted = 1
    /\ Len(lastCall.arg.topics) = 2
    /\ Count(AskedKey(lastCall, 1), subscriptions) = 1
    /\ Count(AskedKey(lastCall, 2), subscriptions) = 0

\* C32: when a task handles a transport error or a disconnect notification
\* the flag becomes false, the task stays in its loop and nothing is reported
\* to a caller (the client, the list and a connect() in progress are left
\* alone); and the flag turns from false to true only when a task handles a
\* connect acknowledgement.
C32_DropClearsFlagAndLoopGoesOn ==
    /\ [][(lastCall'.op = "poll" /\ lastCall'.result \in {"Err", "Disconnect"})
            => /\ ~is_connected'
               /\ net'[lastCall'.arg.v] # "unspawned"
               /\ UNCHANGED <<client, subscriptions, pc>>]_vars
    /\ [][(~is_connected /\ is_connected')
            => (lastCall'.op = "poll" /\ lastCall'.result = "ConnAck")]_vars

\* The task of the engine's connection has handled the loss of a connection
\* that was established.
C32_Witness ==
    /\ lastCall.op = "poll"
    /\ lastCall.result = "Err"
    /\ client # 0
    /\ lastCall.arg = JNum(client)
    /\ net[client] = "dropped"
    /\ ~is_connected
    /\ pc = "idle"

\* C33: while the engine is not connected (never connected, connect() timed
\* out, or the transport dropped), subscribe_ticker and subscribe_orders
\* return WebSocketError, send no frame and add nothing to the list.
C33_SubscribeNeedsConnection ==
    [][(lastCall'.op \in {"subscribe_ticker", "subscribe_orders"} /\ ~is_connected)
          => /\ lastCall'.result = "WebSocketError"
             /\ lastCall'.sent = {}
             /\ subscriptions' = subscriptions]_vars

\* C34: disconnect() never returns with the engine still holding its client
\* and the connected flag true, also when an unsubscribe frame was rejected.
C34_DisconnectAlwaysTearsDown ==
    lastCall.op = "disconnect" => ~(client # 0 /\ is_connected)

\* C35: every placement request carries exactly one serialId: the key of
\* the caller's order, unchanged, when the order has one, and a generated
\* UUID when it has none; this on the live and on the paper client.
C35_OneSerialIdPerPlacement ==
    (lastCall.op = "place_order" /\ lastCall.sent # {})
    => /\ Cardinality(lastCall.sent) = 1
       /\ \A f \in lastCall.sent :
            /\ f.ep = IF variant = "Live" THEN "place_order" ELSE "paper_place_order"
            /\ IF order.serial_id.k # "absent"
               THEN f.serialId = order.serial_id
               ELSE f.serialId.k = "uuid"

C35_Witness ==
    /\ lastCall.op = "place_order"
    /\ lastCall.result = "Ok"
    /\ variant = "Paper"
    /\ order.serial_id.k = "absent"
    /\ \E f \in lastCall.sent : f.serialId.k = "uuid"

\* C36: a refresh_login that returns Ok writes access_token, refresh_token
\* and token_expire and nothing else: the trade_token, the account id and
\* the rest of the client are as before the call, and a session that had a
\* trade_token still has it.
C36_RefreshKeepsTradeTokenAndAccount ==
    [][(lastCall'.op = "refresh_login" /\ lastCall'.result = "Ok")
        => /\ UNCHANGED <<trade_token, account_id, paper_account_id, uuid, variant>>
           /\ ResolvedAccount' = ResolvedAccount
           /\ UNCHANGED <<streamVars, dispatchVars, listingVars, gatewayVars, auxVars>>]_vars

C36_Witness ==
    /\ lastCall.op = "refresh_login"
    /\ lastCall.result = "Ok"
    /\ trade_token # None
    /\ ResolvedAccount # None
    /\ \E f \in lastCall.sent : f.ep = "refresh_login"

\* The volume a payload carries in its "volume" member, whether the member
\* is a JSON number or the number written as a JSON string.
CarriedVolume(payload) ==
    IF payload.volume.k = "num" THEN payload.volume.v
    ELSE CHOOSE n \in Volumes : NumberToString(n) = payload.volume.v

\* C37: the volume held for ticker t is the one carried by the last
\* dispatched per-ticker message for t that had a volume member, and there
\* is none before such a message: a per-ticker message with a volume member
\* overwrites the entry of its ticker with that volume, every other
\* dispatched frame leaves the map as it is.
C37_LastVolumeWins ==
    /\ \A t \in TickerIds : total_volume[t] = NoVolume
    /\ [][lastCall'.result = "Publish"
            => IF /\ ~Malformed(handled')
                  /\ handled'.topic \in {TickerKey(t, ty) : t \in TickerIds, ty \in TopicTypes}
                  /\ handled'.payload.volume.k # "absent"
               THEN total_volume' = [total_volume EXCEPT ![handled'.topic.tickerId.v] =
                                                           CarriedVolume(handled'.payload)]
               ELSE total_volume' = total_volume]_vars

\* The topic keys an unsubscribe_ticker call was asked to remove
AskedKeys(call) == {AskedKey(call, j) : j \in 1..Len(call.arg.topics)}

\* C38: after an unsubscribe_ticker that returns Ok, the subscription list
\* holds none of the keys of the call, however often a key was in the list,
\* and every other entry is still there, in its place.
C38_UnsubscribeRemovesEveryCopy ==
    [][(lastCall'.op = "unsubscribe_ticker" /\ lastCall'.result = "Ok")
        => /\ \A key \in AskedKeys(lastCall') : Count(key, subscriptions') = 0
           /\ subscriptions' = SelectSeq(subscriptions,
                                         LAMBDA key : key \notin AskedKeys(lastCall'))]_vars

C38_Witness ==
    /\ lastCall.op = "unsubscribe_ticker"
    /\ lastCall.result = "Ok"
    /\ lastCall.sent # {}
    /\ Len(lastCall.arg.topics) = 1
    /\ subscriptions # <<>>
    /\ \A key \in AskedKeys(lastCall) : Count(key, subscriptions) = 0

\* C39: an order submitted through PlaceOrderBuilderWithClient with no
\* explicit type is never refused by the builder's price validation, and
\* the request posted for it has the type its prices give: StopLimit with a
\* limit and a stop price, Limit with a limit price only, Stop with a stop
\* price only, Market with neither.
C39_DerivedTypeMatchesPrices ==
    (lastCall.op = "place_order" /\ order.via = "builder_with_client"
        /\ order.order_type = None)
    => /\ lastCall.result \notin {"InvalidRequest", "BuildError"}
       /\ lastCall.sent # {}
       /\ \A f \in lastCall.sent :
            /\ f.limit_price = order.limit_price
            /\ f.stop_price = order.stop_price
            /\ (order.limit_price /\ order.stop_price) => f.order_type = "StopLimit"
            /\ (order.limit_price /\ ~order.stop_price) => f.order_type = "Limit"
            /\ (~order.limit_price /\ order.stop_price) => f.order_type = "Stop"
            /\ (~order.limit_price /\ ~order.stop_price) => f.order_type = "Market"
            /\ PricesPresent(f.order_type, f.limit_price, f.stop_price)

C39_Witness ==
    /\ lastCall.op = "place_order"
    /\ lastCall.result = "Ok"
    /\ order.via = "builder_with_client"
    /\ order.order_type = None
    /\ order.limit_price
    /\ order.stop_price
    /\ \E f \in lastCall.sent : f.order_type = "StopLimit"

====
